---- MODULE Spec2Model ----
(***************************************************************************)
(* Model of src/docker.go: the Container helper type, its option mutators, *)
(* NewContainer, CreateContainer, executeCommands and Stop, run against a  *)
(* container runtime whose calls may each succeed or fail.                 *)
(***************************************************************************)
EXTENDS Integers, Sequences, FiniteSets, TLC

VARIABLES
    constructed,  \* TRUE once NewContainer has returned an instance
    c,            \* the Container struct (zero value while not constructed)
    args,         \* the arguments of the latest NewContainer call
    lastOp,       \* the operation that ran last
    fault,        \* the calls the runtime failed (would have failed) during it
    ret,          \* the error it returned (NoError for nil)
    calls,        \* the runtime calls, sleeps and releases it issued, in order
    logs,         \* the lines it wrote with log.Printf / log.Println
    panicked,     \* TRUE once an operation dereferenced a nil client
    stopped,      \* history: TRUE once Stop has issued its calls
    nCreated,     \* containers the runtime has created so far
    nOps          \* operations the caller has run so far

vars == <<constructed, c, args, lastOp, fault, ret, calls, logs, panicked,
          stopped, nCreated, nOps>>

----------------------------------------------------------------------------
(* Bounds *)

\* operations the caller runs on the instance after constructing it
MaxOps == 4
\* option mutators passed to one NewContainer call
MaxOpts == 2

----------------------------------------------------------------------------
(* Go values *)

\* a nil slice and a non-nil slice holding elems (an empty non-nil slice is
\* Slice(<<>>), which Go distinguishes from nil under == nil)
NilSlice == [isNil |-> TRUE, elems |-> <<>>]

Slice(elems) == [isNil |-> FALSE, elems |-> elems]

\* the nil error; a non-nil error is the sequence of its messages, outermost first
NoError == <<>>

\* errors.New(msg)
ErrorsNew(msg) == <<msg>>

\* errors.Wrap(err, msg)
Wrap(err, msg) == <<msg>> \o err

\* the nil *client.Client
NilClient == "nil"

\* the zero value of the Container struct
ZeroContainer ==
    [ImageToPull |-> "", HostPort |-> "", ContainerPort |-> "",
     ContainerProtocol |-> "", BindHostConfig |-> NilSlice, Env |-> NilSlice,
     Cmd |-> NilSlice, Sleep |-> 0, client |-> NilClient, id |-> ""]

----------------------------------------------------------------------------
(* Option mutators: WithX(arg) returns a closure over *Container; here the *)
(* closure applied to the struct cc.                                       *)

WithContainerProtocol(protocol, cc) == [cc EXCEPT !.ContainerProtocol = protocol]

WithHostPort(hostPort, cc) == [cc EXCEPT !.HostPort = hostPort]

WithContainerPort(containerPort, cc) == [cc EXCEPT !.ContainerPort = containerPort]

\* a copy-paste slip: the binding list lands in Env
WithBindHostConfig_WritesEnv(bindHostConfig, cc) == [cc EXCEPT !.Env = bindHostConfig]

WithBindHostConfig(bindHostConfig, cc) == [cc EXCEPT !.BindHostConfig = bindHostConfig]

WithEnv(env, cc) == [cc EXCEPT !.Env = env]

WithCmd(cmd, cc) == [cc EXCEPT !.Cmd = cmd]

WithSleep(sleepTime, cc) == [cc EXCEPT !.Sleep = sleepTime]

\* opt(conf): an option is <<mutator name, argument>>
ApplyOption(opt, cc) ==
    CASE opt[1] = "WithContainerProtocol" -> WithContainerProtocol(opt[2], cc)
      [] opt[1] = "WithHostPort"          -> WithHostPort(opt[2], cc)
      [] opt[1] = "WithContainerPort"     -> WithContainerPort(opt[2], cc)
      [] opt[1] = "WithBindHostConfig"    -> WithBindHostConfig(opt[2], cc)
      [] opt[1] = "WithEnv"               -> WithEnv(opt[2], cc)
      [] opt[1] = "WithCmd"               -> WithCmd(opt[2], cc)
      [] opt[1] = "WithSleep"             -> WithSleep(opt[2], cc)

RECURSIVE ApplyOptions(_, _)
\* for _, opt := range options { opt(conf) }
ApplyOptions(options, cc) ==
    IF options = <<>> THEN cc
    ELSE ApplyOptions(Tail(options), ApplyOption(Head(options), cc))

\* the struct literal of NewContainer
DefaultContainer(imageToPull, containerPort) ==
    [ZeroContainer EXCEPT !.ImageToPull = imageToPull, !.HostPort = "9876",
                          !.ContainerPort = containerPort,
                          !.ContainerProtocol = "tcp"]

\* NewContainer without the containerPort check
NewContainer_NoPortCheck(imageToPull, containerPort, options) ==
    IF imageToPull = ""
    THEN [ok |-> FALSE, conf |-> ZeroContainer,
          err |-> ErrorsNew("imageToPull cannot be empty")]
    ELSE [ok |-> TRUE, err |-> NoError,
          conf |-> ApplyOptions(options, DefaultContainer(imageToPull, containerPort))]

\* NewContainer: ok is FALSE when it returns (nil, err)
NewContainer(imageToPull, containerPort, options) ==
    IF imageToPull = ""
    THEN [ok |-> FALSE, conf |-> ZeroContainer,
          err |-> ErrorsNew("imageToPull cannot be empty")]
    ELSE IF containerPort = ""
    THEN [ok |-> FALSE, conf |-> ZeroContainer,
          err |-> ErrorsNew("containerPort cannot be empty")]
    ELSE [ok |-> TRUE, err |-> NoError,
          conf |-> ApplyOptions(options, DefaultContainer(imageToPull, containerPort))]

----------------------------------------------------------------------------
(* The container runtime and the libraries CreateContainer calls.  Every   *)
(* call is logged as an entry [api, cli, arg]; the runtime fails the calls *)
(* named in the set failing.                                               *)

Entry(api, cli, arg) == [api |-> api, cli |-> cli, arg |-> arg]

\* the error a failed call of api returns
RuntimeError(api) == <<api \o " failed">>

\* strconv.ParseUint(ports, 10, 16) as nat.ParsePortRange applies it to the
\* port strings used here: only decimal numerals parse
ParsePortNumber(rawPort) ==
    CASE rawPort = "80"    -> [ok |-> TRUE, n |-> 80]
      [] rawPort = "3306"  -> [ok |-> TRUE, n |-> 3306]
      [] OTHER             -> [ok |-> FALSE, n |-> 0]

\* nat.NewPort(proto, port): "<number>/<proto>", or an error for an empty or
\* non-numeric port
NatNewPort(proto, port) ==
    LET p == ParsePortNumber(port) IN
    IF port = "" \/ ~p.ok
    THEN [ok |-> FALSE, port |-> "", err |-> <<"invalid port " \o port>>]
    ELSE [ok |-> TRUE, port |-> ToString(p.n) \o "/" \o proto, err |-> NoError]

\* the ID the runtime gives the n-th container it creates
ContainerIDOf(n) == "c" \o ToString(n)

\* the ID the runtime gives the exec instance created in container id
ExecIDOf(id) == "exec-" \o id

\* the hijacked connection ContainerExecAttach returns for execID
ConnOf(execID) == "conn-" \o execID

\* the handle client.NewClientWithOpts returns in the caller's n-th operation
ClientOf(n) == "cli" \o ToString(n)

\* without the readiness wait
TimeSleep_Skipped(d) == <<>>

\* time.Sleep(d)
TimeSleep(d) == <<Entry("Sleep", "", d)>>

\* executeCommands with the release placed after the drain instead of deferred
executeCommands_ReleaseAfterDrain(cli, id, cmd, failing) ==
    IF cmd.isNil THEN [err |-> NoError, calls |-> <<>>, logs |-> <<>>]
    ELSE
    LET k1 == <<Entry("ContainerExecCreate", cli, id)>>
        execID == ExecIDOf(id)
        k2 == Append(k1, Entry("ContainerExecAttach", cli, execID))
        response == ConnOf(execID)
        k3 == Append(k2, Entry("ContainerExecStart", cli, execID))
        data == IF "ReadAll" \in failing THEN "" ELSE "output of " \o execID
        k4 == Append(k3, Entry("ReadAll", "", response))
    IN
    IF "ContainerExecCreate" \in failing
    THEN [err |-> Wrap(RuntimeError("ContainerExecCreate"),
                       "unable to create exec configuration"),
          calls |-> k1, logs |-> <<>>]
    ELSE IF "ContainerExecAttach" \in failing
    THEN [err |-> Wrap(RuntimeError("ContainerExecAttach"),
                       "unable to attach connection"),
          calls |-> k2, logs |-> <<>>]
    ELSE IF "ContainerExecStart" \in failing
    THEN [err |-> Wrap(RuntimeError("ContainerExecStart"), "unable to start exec"),
          calls |-> k3, logs |-> <<>>]
    ELSE [err |-> NoError, calls |-> Append(k4, Entry("Close", "", response)),
          logs |-> <<data>>]

\* executeCommands returning nil when ContainerExecStart fails
executeCommands_IgnoresStartError(cli, id, cmd, failing) ==
    IF cmd.isNil THEN [err |-> NoError, calls |-> <<>>, logs |-> <<>>]
    ELSE
    LET k1 == <<Entry("ContainerExecCreate", cli, id)>>
        execID == ExecIDOf(id)
        k2 == Append(k1, Entry("ContainerExecAttach", cli, execID))
        response == ConnOf(execID)
        k3 == Append(k2, Entry("ContainerExecStart", cli, execID))
        data == IF "ReadAll" \in failing THEN "" ELSE "output of " \o execID
        k4 == Append(k3, Entry("ReadAll", "", response))
    IN
    IF "ContainerExecCreate" \in failing
    THEN [err |-> Wrap(RuntimeError("ContainerExecCreate"),
                       "unable to create exec configuration"),
          calls |-> k1, logs |-> <<>>]
    ELSE IF "ContainerExecAttach" \in failing
    THEN [err |-> Wrap(RuntimeError("ContainerExecAttach"),
                       "unable to attach connection"),
          calls |-> k2, logs |-> <<>>]
    ELSE IF "ContainerExecStart" \in failing
    THEN [err |-> NoError,
          calls |-> Append(k4, Entry("Close", "", response)), logs |-> <<data>>]
    ELSE [err |-> NoError, calls |-> Append(k4, Entry("Close", "", response)),
          logs |-> <<data>>]

\* executeCommands(ctx, cli, id, cmd): the error returned, the calls issued
\* (the deferred response.Close() last, on every path after a successful
\* attach) and the line logged.  ReadAll's error is discarded.
executeCommands(cli, id, cmd, failing) ==
    IF cmd.isNil THEN [err |-> NoError, calls |-> <<>>, logs |-> <<>>]
    ELSE
    LET k1 == <<Entry("ContainerExecCreate", cli, id)>>
        execID == ExecIDOf(id)
        k2 == Append(k1, Entry("ContainerExecAttach", cli, execID))
        response == ConnOf(execID)
        k3 == Append(k2, Entry("ContainerExecStart", cli, execID))
        data == IF "ReadAll" \in failing THEN "" ELSE "output of " \o execID
        k4 == Append(k3, Entry("ReadAll", "", response))
    IN
    IF "ContainerExecCreate" \in failing
    THEN [err |-> Wrap(RuntimeError("ContainerExecCreate"),
                       "unable to create exec configuration"),
          calls |-> k1, logs |-> <<>>]
    ELSE IF "ContainerExecAttach" \in failing
    THEN [err |-> Wrap(RuntimeError("ContainerExecAttach"),
                       "unable to attach connection"),
          calls |-> k2, logs |-> <<>>]
    ELSE IF "ContainerExecStart" \in failing
    THEN [err |-> Wrap(RuntimeError("ContainerExecStart"), "unable to start exec"),
          calls |-> Append(k3, Entry("Close", "", response)), logs |-> <<>>]
    ELSE [err |-> NoError, calls |-> Append(k4, Entry("Close", "", response)),
          logs |-> <<data>>]

\* c.CreateContainer() with cli the client NewClientWithOpts returns and
\* newID the ID ContainerCreate returns: the error, the calls issued, the
\* lines logged, the struct afterwards and whether a container was created
CreateContainer(cc, cli, newID, failing) ==
    LET k1 == <<Entry("NewClientWithOpts", cli, "")>>
        hostBinding == [HostIP |-> "127.0.0.1", HostPort |-> cc.HostPort]
        containerPort == NatNewPort(cc.ContainerProtocol, cc.ContainerPort)
        k2 == Append(k1, Entry("NewPort", "", cc.ContainerPort))
        portBinding == <<containerPort.port, <<hostBinding>>>>
        k3 == Append(k2, Entry("ImagePull", cli, cc.ImageToPull))
        k4 == Append(k3, Entry("ContainerCreate", cli,
                               [Env |-> cc.Env, Image |-> cc.ImageToPull,
                                PortBindings |-> portBinding,
                                Binds |-> cc.BindHostConfig]))
        k5 == Append(k4, Entry("ContainerStart", cli, newID))
        k6 == k5 \o TimeSleep(cc.Sleep)
        ex == executeCommands(cli, newID, cc.Cmd, failing)
        k7 == k6 \o ex.calls
    IN
    IF "NewClientWithOpts" \in failing
    THEN [err |-> Wrap(RuntimeError("NewClientWithOpts"),
                       "unable to create docker client"),
          calls |-> k1, logs |-> <<>>, conf |-> cc, created |-> FALSE]
    ELSE IF ~containerPort.ok
    THEN [err |-> Wrap(containerPort.err, "unable to get port"),
          calls |-> k2, logs |-> <<>>, conf |-> cc, created |-> FALSE]
    ELSE IF "ImagePull" \in failing
    THEN [err |-> Wrap(RuntimeError("ImagePull"), "unable to pull image"),
          calls |-> k3, logs |-> <<>>, conf |-> cc, created |-> FALSE]
    ELSE IF "ContainerCreate" \in failing
    THEN [err |-> Wrap(RuntimeError("ContainerCreate"), "unable to create container"),
          calls |-> k4, logs |-> <<>>, conf |-> cc, created |-> FALSE]
    ELSE IF "ContainerStart" \in failing
    THEN [err |-> Wrap(RuntimeError("ContainerStart"), "unable to start container"),
          calls |-> k5, logs |-> <<>>, conf |-> cc, created |-> TRUE]
    ELSE IF ex.err # NoError
    THEN [err |-> Wrap(ex.err, "commands were not executed"),
          calls |-> k7, logs |-> ex.logs, conf |-> cc, created |-> TRUE]
    ELSE [err |-> NoError, calls |-> k7, logs |-> ex.logs,
          conf |-> [cc EXCEPT !.id = newID, !.client = cli], created |-> TRUE]

\* Stop returning as soon as ContainerStop fails
Stop_ReturnsOnStopError(cc, failing) ==
    LET k1 == <<Entry("ContainerStop", cc.client, cc.id)>>
        k2 == Append(k1, Entry("ContainerRemove", cc.client, cc.id))
    IN
    IF cc.client = NilClient
    THEN [panic |-> TRUE, calls |-> <<>>, logs |-> <<>>]
    ELSE IF "ContainerStop" \in failing
    THEN [panic |-> FALSE, calls |-> k1, logs |-> <<"unable to stop container">>]
    ELSE [panic |-> FALSE, calls |-> k2,
          logs |-> IF "ContainerRemove" \in failing
                   THEN <<"unable to remove container">> ELSE <<>>]

\* c.Stop(): it returns nothing; with a nil c.client the first call
\* dereferences the nil client and panics before any request is sent
Stop(cc, failing) ==
    LET k1 == <<Entry("ContainerStop", cc.client, cc.id)>>
        k2 == Append(k1, Entry("ContainerRemove", cc.client, cc.id))
    IN
    IF cc.client = NilClient
    THEN [panic |-> TRUE, calls |-> <<>>, logs |-> <<>>]
    ELSE [panic |-> FALSE, calls |-> k2,
          logs |-> (IF "ContainerStop" \in failing
                    THEN <<"unable to stop container">> ELSE <<>>)
                   \o (IF "ContainerRemove" \in failing
                       THEN <<"unable to remove container">> ELSE <<>>)]

----------------------------------------------------------------------------
(* Inputs *)

Images == {"", "mysql:8"}

Ports == {"", "3306", "http"}

\* the option mutators a caller passes, as <<mutator name, argument>>
Options ==
    {<<"WithContainerProtocol", "udp">>,
     <<"WithHostPort", "13306">>, <<"WithHostPort", "8080">>,
     <<"WithContainerPort", "">>, <<"WithContainerPort", "80">>,
     <<"WithBindHostConfig", Slice(<<"/host/path:/container/path">>)>>,
     <<"WithEnv", Slice(<<"MYSQL_ROOT_PASSWORD=secret">>)>>,
     <<"WithCmd", NilSlice>>, <<"WithCmd", Slice(<<>>)>>,
     <<"WithCmd", Slice(<<"ls">>)>>,
     <<"WithSleep", 2>>}

\* the option lists of at most n mutators
OptionLists(n) == UNION {[1..k -> Options] : k \in 0..n}

\* the constructor calls whose instances the lifecycle is run on
LifecycleArgs ==
    {[imageToPull |-> "mysql:8", containerPort |-> "3306", options |-> <<>>],
     [imageToPull |-> "mysql:8", containerPort |-> "3306",
      options |-> <<<<"WithHostPort", "13306">>,
                    <<"WithEnv", Slice(<<"MYSQL_ROOT_PASSWORD=secret">>)>>>>],
     [imageToPull |-> "mysql:8", containerPort |-> "3306",
      options |-> <<<<"WithCmd", Slice(<<"ls">>)>>, <<"WithSleep", 2>>>>],
     [imageToPull |-> "mysql:8", containerPort |-> "3306",
      options |-> <<<<"WithCmd", Slice(<<>>)>>>>],
     [imageToPull |-> "mysql:8", containerPort |-> "3306",
      options |-> <<<<"WithCmd", NilSlice>>, <<"WithSleep", 2>>>>],
     [imageToPull |-> "mysql:8", containerPort |-> "http",
      options |-> <<<<"WithCmd", Slice(<<"ls">>)>>>>],
     [imageToPull |-> "mysql:8", containerPort |-> "3306",
      options |-> <<<<"WithContainerPort", "">>>>]}

\* the calls of CreateContainer and executeCommands that can fail
CreateApis ==
    {"NewClientWithOpts", "ImagePull", "ContainerCreate", "ContainerStart",
     "ContainerExecCreate", "ContainerExecAttach", "ContainerExecStart", "ReadAll"}

\* what the runtime fails during one CreateContainer: nothing, or one call
\* (the first failure aborts, so a second failing call is never reached)
CreateFaults == {{}} \cup {{a} : a \in CreateApis}

\* what the runtime fails during one Stop
StopFaults == SUBSET {"ContainerStop", "ContainerRemove"}

----------------------------------------------------------------------------
(* Construction: the program before NewContainer, and the call itself *)

InitNew ==
    /\ constructed = FALSE
    /\ c = ZeroContainer
    /\ args = [imageToPull |-> "", containerPort |-> "", options |-> <<>>]
    /\ lastOp = "none"
    /\ fault = {}
    /\ ret = NoError
    /\ calls = <<>>
    /\ logs = <<>>
    /\ panicked = FALSE
    /\ stopped = FALSE
    /\ nCreated = 0
    /\ nOps = 0

NewContainerCall ==
    /\ lastOp = "none"
    /\ \E imageToPull \in Images, containerPort \in Ports,
          options \in OptionLists(MaxOpts) :
          LET r == NewContainer(imageToPull, containerPort, options) IN
          /\ constructed' = r.ok
          /\ c' = r.conf
          /\ ret' = r.err
          /\ args' = [imageToPull |-> imageToPull, containerPort |-> containerPort,
                      options |-> options]
    /\ lastOp' = "NewContainer"
    /\ UNCHANGED <<fault, calls, logs, panicked, stopped, nCreated, nOps>>

NextNew == NewContainerCall

SpecNew == InitNew /\ [][NextNew]_vars

----------------------------------------------------------------------------
(* Lifecycle: the program once NewContainer has returned an instance *)

Init ==
    /\ \E a \in LifecycleArgs :
          LET r == NewContainer(a.imageToPull, a.containerPort, a.options) IN
          /\ r.ok
          /\ constructed = TRUE
          /\ c = r.conf
          /\ ret = r.err
          /\ args = a
    /\ lastOp = "NewContainer"
    /\ fault = {}
    /\ calls = <<>>
    /\ logs = <<>>
    /\ panicked = FALSE
    /\ stopped = FALSE
    /\ nCreated = 0
    /\ nOps = 0

CreateContainerCall ==
    /\ constructed
    /\ ~panicked
    /\ nOps < MaxOps
    /\ \E failing \in CreateFaults :
          LET r == CreateContainer(c, ClientOf(nOps + 1),
                                   ContainerIDOf(nCreated + 1), failing) IN
          /\ c' = r.conf
          /\ ret' = r.err
          /\ calls' = r.calls
          /\ logs' = r.logs
          /\ nCreated' = IF r.created THEN nCreated + 1 ELSE nCreated
          /\ fault' = failing
    /\ lastOp' = "CreateContainer"
    /\ nOps' = nOps + 1
    /\ UNCHANGED <<constructed, args, panicked, stopped>>

StopCall ==
    /\ constructed
    /\ ~panicked
    /\ nOps < MaxOps
    /\ \E failing \in StopFaults :
          LET r == Stop(c, failing) IN
          /\ panicked' = r.panic
          /\ stopped' = (stopped \/ ~r.panic)
          /\ calls' = r.calls
          /\ logs' = r.logs
          /\ fault' = failing
    /\ ret' = NoError
    /\ lastOp' = "Stop"
    /\ nOps' = nOps + 1
    /\ UNCHANGED <<constructed, c, args, nCreated>>

Next == CreateContainerCall \/ StopCall

Spec == Init /\ [][Next]_vars

----------------------------------------------------------------------------
(* Vocabulary of the properties *)

\* the client methods that send a request to the runtime
RuntimeApis ==
    {"ImagePull", "ContainerCreate", "ContainerStart", "ContainerExecCreate",
     "ContainerExecAttach", "ContainerExecStart", "ContainerStop",
     "ContainerRemove"}

\* the steps of CreateContainer whose failure it reports
ProvisionSteps ==
    {"NewClientWithOpts", "NewPort", "ImagePull", "ContainerCreate",
     "ContainerStart", "ContainerExecCreate", "ContainerExecAttach",
     "ContainerExecStart"}

ExecApis == {"ContainerExecCreate", "ContainerExecAttach", "ContainerExecStart"}

\* the api names of a call log, in order
Apis(log) == [i \in DOMAIN log |-> log[i].api]

\* the positions of a call log at which api was called
Positions(log, api) == {i \in DOMAIN log : log[i].api = api}

Issued(log, api) == Positions(log, api) # {}

\* the step at position i of the log failed
FailedAt(log, i) ==
    \/ log[i].api \in fault \cap ProvisionSteps
    \/ log[i].api = "NewPort" /\ ~NatNewPort(c.ContainerProtocol, log[i].arg).ok

\* the step an error of CreateContainer names by its wrapping messages
ErrorStep(err) ==
    CASE err = NoError -> "none"
      [] Head(err) = "unable to create docker client" -> "NewClientWithOpts"
      [] Head(err) = "unable to get port" -> "NewPort"
      [] Head(err) = "unable to pull image" -> "ImagePull"
      [] Head(err) = "unable to create container" -> "ContainerCreate"
      [] Head(err) = "unable to start container" -> "ContainerStart"
      [] Head(err) = "commands were not executed" /\ Len(err) > 1 ->
            (CASE err[2] = "unable to create exec configuration" -> "ContainerExecCreate"
               [] err[2] = "unable to attach connection" -> "ContainerExecAttach"
               [] err[2] = "unable to start exec" -> "ContainerExecStart"
               [] OTHER -> "unknown")
      [] OTHER -> "unknown"

\* the identity fields of the instance
IdentitySet(cc) == cc.id # "" /\ cc.client # NilClient

IdentityUnset(cc) == cc.id = "" /\ cc.client = NilClient

\* the rearrangements of a list
Rearrangements(s) ==
    LET n == Len(s)
        bij == {f \in [1..n -> 1..n] : \A i, j \in 1..n : f[i] = f[j] => i = j}
    IN {[i \in 1..n |-> s[f[i]]] : f \in bij}

\* no two mutators of the list set the same field
DistinctMutators(s) == \A i, j \in DOMAIN s : s[i][1] = s[j][1] => i = j

\* the configuration fields of an instance
Configuration(cc) ==
    <<cc.HostPort, cc.ContainerPort, cc.ContainerProtocol, cc.BindHostConfig,
      cc.Env, cc.Cmd, cc.Sleep>>

----------------------------------------------------------------------------
(* Properties *)

\* C1: when a step of CreateContainer fails, the error returned names that
\* step by its wrapping message and nothing is sent to the runtime after the
\* failing call (no later step, no stop, no remove); an error is returned
\* only when a step failed.
C1_FailureAbortsAtStep ==
    lastOp = "CreateContainer" =>
        /\ \A i \in DOMAIN calls :
              FailedAt(calls, i) =>
                 /\ ret # NoError
                 /\ ErrorStep(ret) = calls[i].api
                 /\ \A j \in DOMAIN calls :
                       j > i => calls[j].api \notin RuntimeApis \cup ProvisionSteps
        /\ ret # NoError => \E i \in DOMAIN calls : FailedAt(calls, i)

\* C1 witness: the exec start failed after the container was created and
\* started, and the error says so.
C1_Witness ==
    /\ lastOp = "CreateContainer"
    /\ fault = {"ContainerExecStart"}
    /\ Issued(calls, "ContainerExecStart")
    /\ Issued(calls, "ContainerStart")
    /\ ErrorStep(ret) = "ContainerExecStart"

\* C2: id and client are both unset or both set, they become set only by a
\* CreateContainer call that returns nil, and after a CreateContainer call
\* that returns an error both are unset.
C2_IdentityUnsetAfterError ==
    [][/\ IdentitySet(c') \/ IdentityUnset(c')
       /\ (IdentityUnset(c) /\ ~IdentityUnset(c')) =>
             (lastOp' = "CreateContainer" /\ ret' = NoError)
       /\ (lastOp' = "CreateContainer" /\ ret' # NoError) => IdentityUnset(c')]_vars

\* C3: CreateContainer takes effect only on an instance that was never
\* provisioned and Stop only on a running one: Stop before any successful
\* CreateContainer sends no stop or remove, a CreateContainer after a
\* successful one creates no container, and a Stop after a Stop sends no
\* stop or remove.
C3_TransitionsGuarded ==
    [][/\ (lastOp' = "Stop" /\ IdentityUnset(c)) =>
             (~Issued(calls', "ContainerStop") /\ ~Issued(calls', "ContainerRemove"))
       /\ (lastOp' = "CreateContainer" /\ IdentitySet(c)) =>
             ~Issued(calls', "ContainerCreate")
       /\ (lastOp' = "Stop" /\ stopped) =>
             (~Issued(calls', "ContainerStop") /\ ~Issued(calls', "ContainerRemove"))]_vars

\* C4: every instance NewContainer returns has a non-empty ImageToPull and a
\* non-empty ContainerPort.
C4_RequiredFieldsNonEmpty ==
    (lastOp = "NewContainer" /\ constructed) =>
        (c.ImageToPull # "" /\ c.ContainerPort # "")

\* C5: CreateContainer makes the exec calls exactly when the command is
\* non-empty: with no command or an empty one none of exec-create, attach and
\* exec-start is called and the call succeeds when the earlier steps do; with
\* a non-empty command exec-create is called once, after the readiness wait.
C5_ExecIffCommandNonEmpty ==
    lastOp = "CreateContainer" =>
        /\ Len(c.Cmd.elems) = 0 =>
              /\ \A a \in ExecApis : ~Issued(calls, a)
              /\ (\A i \in DOMAIN calls : ~FailedAt(calls, i)) => ret = NoError
        /\ (Len(c.Cmd.elems) > 0 /\ Issued(calls, "Sleep")) =>
              /\ Cardinality(Positions(calls, "ContainerExecCreate")) = 1
              /\ \A i \in Positions(calls, "Sleep") :
                    \A j \in Positions(calls, "ContainerExecCreate") : i < j

\* C6: Stop on a provisioned instance sends exactly one stop and then exactly
\* one remove, both through the recorded client and for the recorded id,
\* whichever of the two fail, and returns no error and does not panic.
C6_StopThenRemoveOnce ==
    (lastOp = "Stop" /\ IdentitySet(c)) =>
        /\ calls = <<Entry("ContainerStop", c.client, c.id),
                     Entry("ContainerRemove", c.client, c.id)>>
        /\ ret = NoError
        /\ ~panicked

\* C6 witness: a Stop on a provisioned instance during which both the stop
\* and the remove failed.
C6_Witness ==
    /\ lastOp = "Stop"
    /\ IdentitySet(c)
    /\ fault = {"ContainerStop", "ContainerRemove"}
    /\ Len(logs) = 2

\* C7: when no step fails, CreateContainer pulls, creates, starts, sleeps for
\* c.Sleep and then runs the exec step (its calls, when a command is set), in
\* that order and once each, returns nil and records the created container's
\* id and the client on the instance.
C7_SuccessSequence ==
    (lastOp = "CreateContainer" /\ fault = {}
        /\ NatNewPort(c.ContainerProtocol, c.ContainerPort).ok) =>
        /\ ret = NoError
        /\ Apis(calls) =
              <<"NewClientWithOpts", "NewPort", "ImagePull", "ContainerCreate",
                "ContainerStart", "Sleep">>
              \o (IF c.Cmd.isNil THEN <<>>
                  ELSE <<"ContainerExecCreate", "ContainerExecAttach",
                         "ContainerExecStart", "ReadAll", "Close">>)
        /\ calls[6].arg = c.Sleep
        /\ c.id = ContainerIDOf(nCreated)
        /\ calls[5].arg = c.id
        /\ c.client = calls[1].cli
        /\ IdentitySet(c)

\* C7 witness: a successful CreateContainer of an instance with a command
\* and a readiness delay.
C7_Witness ==
    /\ lastOp = "CreateContainer"
    /\ fault = {}
    /\ ret = NoError
    /\ c.Sleep > 0
    /\ Len(calls) = 11
    /\ c.id = "c1"

\* C8: every permutation of the option list passed to NewContainer yields the
\* configuration the list itself yields.
C8_AnyListCommutes ==
    (lastOp = "NewContainer" /\ constructed) =>
        \A p \in Rearrangements(args.options) :
            Configuration(NewContainer(args.imageToPull, args.containerPort, p).conf)
                = Configuration(c)

\* C8, amended: every permutation of an option list in which no two mutators
\* set the same field yields the configuration the list itself yields.
C8_DistinctMutatorsCommute ==
    (lastOp = "NewContainer" /\ constructed /\ DistinctMutators(args.options)) =>
        \A p \in Rearrangements(args.options) :
            Configuration(NewContainer(args.imageToPull, args.containerPort, p).conf)
                = Configuration(c)

\* C8 witness: an instance built from two mutators of different fields.
C8_Witness ==
    /\ lastOp = "NewContainer"
    /\ constructed
    /\ Len(args.options) = 2
    /\ DistinctMutators(args.options)
    /\ c.BindHostConfig # NilSlice
    /\ c.Env # NilSlice

\* C9: NewContainer with an empty image or an empty container port returns an
\* error and no instance; with both non-empty and no mutators it returns an
\* instance with HostPort "9876", ContainerProtocol "tcp", no bindings, no
\* environment, no command, zero Sleep and unset id and client.
C9_ValidationAndDefaults ==
    lastOp = "NewContainer" =>
        /\ (args.imageToPull = "" \/ args.containerPort = "") =>
              (~constructed /\ ret # NoError)
        /\ (args.imageToPull # "" /\ args.containerPort # "" /\ args.options = <<>>) =>
              /\ constructed
              /\ ret = NoError
              /\ c = [ImageToPull |-> args.imageToPull, HostPort |-> "9876",
                      ContainerPort |-> args.containerPort,
                      ContainerProtocol |-> "tcp", BindHostConfig |-> NilSlice,
                      Env |-> NilSlice, Cmd |-> NilSlice, Sleep |-> 0,
                      client |-> NilClient, id |-> ""]

\* C9 witness: NewContainer refused an empty container port.
C9_Witness ==
    /\ lastOp = "NewContainer"
    /\ args.imageToPull # ""
    /\ args.containerPort = ""
    /\ ~constructed
    /\ ret = <<"containerPort cannot be empty">>

\* C10: the connection a successful exec-attach returns is released exactly
\* once, as the last thing executeCommands does, whether exec-start fails,
\* the drain fails or both succeed; nothing is released when the attach
\* failed or was not reached.
C10_ConnectionReleasedOnce ==
    lastOp = "CreateContainer" =>
        LET attached == Issued(calls, "ContainerExecAttach")
                        /\ "ContainerExecAttach" \notin fault
        IN
        /\ attached =>
              /\ Cardinality(Positions(calls, "Close")) = 1
              /\ calls[Len(calls)].api = "Close"
              /\ \A i \in Positions(calls, "ContainerExecAttach") :
                    calls[Len(calls)].arg = ConnOf(calls[i].arg)
        /\ ~attached => ~Issued(calls, "Close")

\* C10 witness: the drain failed after a successful attach and start, and
\* the connection was released.
C10_Witness ==
    /\ lastOp = "CreateContainer"
    /\ fault = {"ReadAll"}
    /\ Issued(calls, "ReadAll")
    /\ Issued(calls, "Close")

====
